---- MODULE Spec2Model ----
(***************************************************************************)
(* Model of the godot-bevy synchronization core:                           *)
(*   - the collision bridge (plugins/collisions.rs): the signal queue, the *)
(*     drain system write_godot_collision_events, the event stream and the *)
(*     apply system update_godot_collisions;                               *)
(*   - the scene-tree component registry (plugins/core.rs).                *)
(***************************************************************************)
EXTENDS Integers, Sequences, FiniteSets, TLC

\* ------------------------------------------------------------------------
\* Bounds of the model
\* ------------------------------------------------------------------------
\* number of signals the engine pushes in one behaviour
MaxPush == 2
\* number of signals the engine pushes for bodies that keep touching
MaxPushRepeated == 3
\* number of signals the engine pushes in one behaviour with fair ticks
MaxPushFair == 2
\* number of nodes mirrored into the world in one behaviour of the registry
MaxNodes == 2
\* number of registration calls in one behaviour of the registry
MaxRegistrations == 3
\* number of signals pushed in one behaviour of the configured core
MaxConfigPush == 1
\* number of registry operations in one behaviour of the configured core
MaxConfigRegistryOps == 2
\* latest instant of the monotonic clock
MaxTime == 6
\* number of invocations of SystemDeltaTimer::delta
MaxDeltas == 3

\* ------------------------------------------------------------------------
\* The world the collision systems run against
\* ------------------------------------------------------------------------
\* node handles that occur in signals; handle 4 belongs to no live entity
Handles == 1 .. 4

\* iteration order of Query<(Entity, &GodotNodeHandle)>
AllEntities == <<11, 12, 13>>

\* iteration order of Query<(&GodotNodeHandle, &mut Collisions)>
CollisionEntities == <<11, 12>>

\* the GodotNodeHandle component of each live entity
HandleOf == (11 :> 1) @@ (12 :> 2) @@ (13 :> 3)

\* Option::None
None == 0

\* CollisionEventType
Started == "Started"
Ended == "Ended"
CollisionEventType == {Started, Ended}

\* the (origin, target) pairs the engine signals: both resolved and carrying
\* Collisions (either direction), target without Collisions, origin without
\* Collisions, target unresolved, origin unresolved
Pairs == {<<1, 2>>, <<2, 1>>, <<1, 3>>, <<3, 1>>, <<1, 4>>, <<4, 2>>}

\* CollisionEvent { event_type, origin, target }
CollisionEvent ==
    {[event_type |-> t, origin |-> p[1], target |-> p[2]] :
        t \in CollisionEventType, p \in Pairs}

\* the pairs of two bodies that touch one origin again and again
RepeatedPairs == {<<1, 2>>, <<1, 3>>}

\* the signals of those pairs
RepeatedEvent ==
    {[event_type |-> t, origin |-> p[1], target |-> p[2]] :
        t \in CollisionEventType, p \in RepeatedPairs}

\* the systems build() adds to PrePhysicsUpdate; event_update_system is only
\* named in .before(..) and is not a system of this schedule
Systems == {"write_godot_collision_events", "update_godot_collisions"}

\* Collisions::default()
DefaultCollisions == [colliding_entities |-> <<>>, recent_collisions |-> <<>>]

\* ------------------------------------------------------------------------
\* The registry's universe
\* ------------------------------------------------------------------------
\* component types (TypeId::of::<C>())
Types == {"X", "Y", "Z"}

\* custom initializer functions passed to register_with_init
InitFns == {"f", "g"}

\* the inserter register<C>() builds: entity.insert(C::default())
DefaultInserter == "default"

\* the initializers a registration call can carry
Inserters == {DefaultInserter} \cup InitFns

VARIABLES
    queue,             \* the mpsc channel behind CollisionEventReader
    events_a,          \* Events<CollisionEvent>: the older buffer
    events_b,          \* Events<CollisionEvent>: the buffer being written
    event_count,       \* Events<CollisionEvent>: number of events ever sent
    last_event_count,  \* cursor of update_godot_collisions' EventReader
    collisions,        \* the Collisions component of each entity that has one
    ran,               \* systems that have run in the current tick
    pushed,            \* history: every signal pushed, in push order
    published,         \* history: every event published, in publication order
    applied,           \* history: every event read by update_godot_collisions
    tickPublished,     \* events published by the current tick's drain
    tickApplied,       \* events read by the current tick's apply
    prevCollisions,    \* collisions at the end of the previous tick
    afterReset,        \* collisions right after the reset loop of the last apply
    components,        \* SceneTreeComponentRegistry.components
    mirrored,          \* per mirrored node: the entity add_to_entity built
    registrations,     \* history: every registration call, in call order
    app_registry,      \* the App's SceneTreeComponentRegistry resource:
                       \* <<>> when absent, <<components>> when present
    app_calls,         \* history: every App extension call, in call order
    built_at,          \* <<>> before GodotBaseCorePlugin::build, then
                       \* <<number of extension calls made before it>>
    config,            \* the GodotTransformConfig resource: <<>> before setup
    configured_by,     \* history: <<the constructor setup used>>
    clock,             \* the monotonic clock read by Instant::now()
    last_time,         \* SystemDeltaTimer.last_time: <<>> is None, <<t>> Some(t)
    deltas,            \* history: the durations delta() returned
    invoked_at         \* history: the instants at which delta() was invoked

collisionVars == <<queue, events_a, events_b, event_count, last_event_count,
                   collisions, ran, pushed, published, applied, tickPublished,
                   tickApplied, prevCollisions, afterReset>>

registryVars == <<components, mirrored, registrations>>

appVars == <<app_registry, app_calls, built_at>>

configVars == <<config, configured_by>>

timerVars == <<clock, last_time, deltas, invoked_at>>

coreVars == <<app_registry, app_calls, built_at, config, configured_by,
              clock, last_time, deltas, invoked_at>>

vars == <<queue, events_a, events_b, event_count, last_event_count,
          collisions, ran, pushed, published, applied, tickPublished,
          tickApplied, prevCollisions, afterReset, components, mirrored,
          registrations, app_registry, app_calls, built_at, config,
          configured_by, clock, last_time, deltas, invoked_at>>

\* ------------------------------------------------------------------------
\* Helpers
\* ------------------------------------------------------------------------
Range(s) == {s[i] : i \in 1 .. Len(s)}

\* s with its first n elements removed (slice [n..], empty when n >= len)
Drop(s, n) == IF n >= Len(s) THEN <<>> ELSE SubSeq(s, n + 1, Len(s))

\* usize::saturating_sub
SaturatingSub(a, b) == IF a > b THEN a - b ELSE 0

\* an empty EventSequence starting at event id n
EventSequence(n) == [events |-> <<>>, start_event_count |-> n]

\* ------------------------------------------------------------------------
\* Events<CollisionEvent> and its reader
\* ------------------------------------------------------------------------
\* the batch written back to front
RECURSIVE InstancesReversed(_, _)
InstancesReversed(evs, n) ==
    IF evs = <<>> THEN <<>>
    ELSE <<[event_id |-> n, event |-> evs[Len(evs)]]>>
             \o InstancesReversed(SubSeq(evs, 1, Len(evs) - 1), n + 1)

\* the EventInstance records write_batch appends for the events evs, the
\* first of them getting event id n
RECURSIVE Instances(_, _)
Instances(evs, n) ==
    IF evs = <<>> THEN <<>>
    ELSE <<[event_id |-> n, event |-> Head(evs)]>> \o Instances(Tail(evs), n + 1)

\* the events EventReader::read yields: those of both buffers whose id is at
\* or beyond the reader's cursor, older buffer first
UnreadEvents(a, b, last) ==
    Drop(a.events, SaturatingSub(last, a.start_event_count))
        \o Drop(b.events, SaturatingSub(last, b.start_event_count))

\* ------------------------------------------------------------------------
\* update_godot_collisions, step by step
\* ------------------------------------------------------------------------
\* iter().find_map(..) over a query: the first entity, in iteration order,
\* whose GodotNodeHandle equals h
RECURSIVE FindMap(_, _)
FindMap(order, h) ==
    IF order = <<>> THEN None
    ELSE IF HandleOf[Head(order)] = h THEN Head(order)
    ELSE FindMap(Tail(order), h)

\* the reset loop left out: recent_collisions is carried over
ResetRecentSkipped(coll) == coll

\* the reset loop at the head of update_godot_collisions
ResetRecent(coll) ==
    [e \in DOMAIN coll |-> [coll[e] EXCEPT !.recent_collisions = <<>>]]

\* removing one occurrence of the target, as a reference count would
RECURSIVE RemoveFirst(_, _)
RemoveFirst(vec, target) ==
    IF vec = <<>> THEN <<>>
    ELSE IF Head(vec) = target THEN Tail(vec)
    ELSE <<Head(vec)>> \o RemoveFirst(Tail(vec), target)

\* Vec::retain(|x| *x != target)
Retain(vec, target) == SelectSeq(vec, LAMBDA x : x # target)

\* the event loop body with Ended clearing the whole vector instead of
\* retaining the other targets
ApplyEventEndedClears(coll, event) ==
    LET target == FindMap(AllEntities, event.target)
        origin == FindMap(CollisionEntities, event.origin)
    IN  IF target = None \/ origin = None THEN coll
        ELSE IF event.event_type = Started
             THEN [coll EXCEPT ![origin].colliding_entities = Append(@, target),
                               ![origin].recent_collisions = Append(@, target)]
             ELSE [coll EXCEPT ![origin].colliding_entities = <<>>]

\* the event loop body that skips an event only when its origin is missing
\* and takes the target as it comes
ApplyEventTargetUnchecked(coll, event) ==
    LET target == FindMap(AllEntities, event.target)
        origin == FindMap(CollisionEntities, event.origin)
    IN  IF origin = None THEN coll
        ELSE IF event.event_type = Started
             THEN [coll EXCEPT ![origin].colliding_entities = Append(@, target),
                               ![origin].recent_collisions = Append(@, target)]
             ELSE [coll EXCEPT ![origin].colliding_entities = Retain(@, target)]

\* the event loop body with Ended doing nothing
ApplyEventEndedIgnored(coll, event) ==
    LET target == FindMap(AllEntities, event.target)
        origin == FindMap(CollisionEntities, event.origin)
    IN  IF target = None \/ origin = None THEN coll
        ELSE IF event.event_type = Started
             THEN [coll EXCEPT ![origin].colliding_entities = Append(@, target),
                               ![origin].recent_collisions = Append(@, target)]
             ELSE coll

\* the event loop body with Ended removing the target from both vectors
ApplyEventEndedRemovesRecent(coll, event) ==
    LET target == FindMap(AllEntities, event.target)
        origin == FindMap(CollisionEntities, event.origin)
    IN  IF target = None \/ origin = None THEN coll
        ELSE IF event.event_type = Started
             THEN [coll EXCEPT ![origin].colliding_entities = Append(@, target),
                               ![origin].recent_collisions = Append(@, target)]
             ELSE [coll EXCEPT ![origin].colliding_entities = Retain(@, target),
                               ![origin].recent_collisions = Retain(@, target)]

\* the event loop body with Started recorded on both sides of the pair
ApplyEventSymmetric(coll, event) ==
    LET target == FindMap(AllEntities, event.target)
        origin == FindMap(CollisionEntities, event.origin)
    IN  IF target = None \/ origin = None THEN coll
        ELSE IF event.event_type = Started
             THEN LET one == [coll EXCEPT
                                 ![origin].colliding_entities = Append(@, target),
                                 ![origin].recent_collisions = Append(@, target)]
                  IN  IF target \in DOMAIN coll /\ target # origin
                      THEN [one EXCEPT
                               ![target].colliding_entities = Append(@, origin),
                               ![target].recent_collisions = Append(@, origin)]
                      ELSE one
             ELSE [coll EXCEPT ![origin].colliding_entities = Retain(@, target)]

\* the body of the event loop for one event
ApplyEvent(coll, event) ==
    LET target == FindMap(AllEntities, event.target)
        origin == FindMap(CollisionEntities, event.origin)
    IN  IF target = None \/ origin = None THEN coll
        ELSE IF event.event_type = Started
             THEN [coll EXCEPT ![origin].colliding_entities = Append(@, target),
                               ![origin].recent_collisions = Append(@, target)]
             ELSE [coll EXCEPT ![origin].colliding_entities = Retain(@, target)]

\* the event loop: the instances insts applied in order
RECURSIVE ApplyEvents(_, _)
ApplyEvents(coll, insts) ==
    IF insts = <<>> THEN coll
    ELSE ApplyEvents(ApplyEvent(coll, Head(insts).event), Tail(insts))

\* ------------------------------------------------------------------------
\* Initial state
\* ------------------------------------------------------------------------
Init ==
    /\ queue = <<>>
    /\ events_a = EventSequence(0)
    /\ events_b = EventSequence(0)
    /\ event_count = 0
    /\ last_event_count = 0
    /\ collisions = [e \in Range(CollisionEntities) |-> DefaultCollisions]
    /\ ran = {}
    /\ pushed = <<>>
    /\ published = <<>>
    /\ applied = <<>>
    /\ tickPublished = <<>>
    /\ tickApplied = <<>>
    /\ prevCollisions = [e \in Range(CollisionEntities) |-> DefaultCollisions]
    /\ afterReset = [e \in Range(CollisionEntities) |-> DefaultCollisions]
    /\ components = <<>>
    /\ mirrored = <<>>
    /\ registrations = <<>>
    /\ app_registry = <<>>
    /\ app_calls = <<>>
    /\ built_at = <<>>
    /\ config = <<>>
    /\ configured_by = <<>>
    /\ clock = 0
    /\ last_time = <<>>
    /\ deltas = <<>>
    /\ invoked_at = <<>>

\* ------------------------------------------------------------------------
\* Actions of the collision bridge
\* ------------------------------------------------------------------------
\* the engine callback sends one signal into the channel; it may do so at
\* any point of a tick
Push ==
    /\ Len(pushed) < MaxPush
    /\ \E s \in CollisionEvent :
          /\ queue' = Append(queue, s)
          /\ pushed' = Append(pushed, s)
    /\ UNCHANGED <<events_a, events_b, event_count, last_event_count, collisions,
                   ran, published, applied, tickPublished, tickApplied,
                   prevCollisions, afterReset, registryVars, coreVars>>

\* the drain taking one signal with try_recv instead of all with try_iter
write_one_collision_event ==
    /\ "write_godot_collision_events" \notin ran
    /\ LET batch == Instances(SubSeq(queue, 1, IF queue = <<>> THEN 0 ELSE 1),
                              event_count)
       IN  /\ events_b' = [events_b EXCEPT !.events = @ \o batch]
           /\ event_count' = event_count + Len(batch)
           /\ published' = published \o batch
           /\ tickPublished' = batch
    /\ queue' = Drop(queue, 1)
    /\ ran' = ran \cup {"write_godot_collision_events"}
    /\ UNCHANGED <<events_a, last_event_count, collisions, pushed, applied,
                   tickApplied, prevCollisions, afterReset, registryVars, coreVars>>

\* the drain waiting for a signal with iter instead of try_iter
write_blocking_collision_events ==
    /\ "write_godot_collision_events" \notin ran
    /\ queue # <<>>
    /\ LET batch == Instances(queue, event_count)
       IN  /\ events_b' = [events_b EXCEPT !.events = @ \o batch]
           /\ event_count' = event_count + Len(batch)
           /\ published' = published \o batch
           /\ tickPublished' = batch
    /\ queue' = <<>>
    /\ ran' = ran \cup {"write_godot_collision_events"}
    /\ UNCHANGED <<events_a, last_event_count, collisions, pushed, applied,
                   tickApplied, prevCollisions, afterReset, registryVars, coreVars>>

\* write_godot_collision_events: event_writer.write_batch(events.0.try_iter())
write_godot_collision_events ==
    /\ "write_godot_collision_events" \notin ran
    /\ LET batch == Instances(queue, event_count)
       IN  /\ events_b' = [events_b EXCEPT !.events = @ \o batch]
           /\ event_count' = event_count + Len(batch)
           /\ published' = published \o batch
           /\ tickPublished' = batch
    /\ queue' = <<>>
    /\ ran' = ran \cup {"write_godot_collision_events"}
    /\ UNCHANGED <<events_a, last_event_count, collisions, pushed, applied,
                   tickApplied, prevCollisions, afterReset, registryVars, coreVars>>

\* event_update_system: Events::update swaps the buffers and clears the one
\* that is now written to. It runs in a schedule of its own, so the
\* .before(..) of build() orders nothing: how many swaps fall between two
\* runs of the collision systems, and where, is open
event_update_system ==
    /\ events_a' = events_b
    /\ events_b' = EventSequence(event_count)
    /\ UNCHANGED <<queue, event_count, last_event_count, collisions, ran, pushed,
                   published, applied, tickPublished, tickApplied,
                   prevCollisions, afterReset, registryVars, coreVars>>

\* update_godot_collisions: reset recent_collisions, then apply every unread
\* event; nothing orders it against the drain
update_godot_collisions ==
    /\ "update_godot_collisions" \notin ran
    /\ LET unread == UnreadEvents(events_a, events_b, last_event_count)
           reset == ResetRecent(collisions)
       IN  /\ afterReset' = reset
           /\ collisions' = ApplyEvents(reset, unread)
           /\ applied' = applied \o unread
           /\ tickApplied' = unread
    /\ last_event_count' = event_count
    /\ ran' = ran \cup {"update_godot_collisions"}
    /\ UNCHANGED <<queue, events_a, events_b, event_count, pushed, published,
                   tickPublished, prevCollisions, registryVars, coreVars>>

\* the run of PrePhysicsUpdate is over: its two systems have run once; the
\* next tick starts
FinishTick ==
    /\ ran = Systems
    /\ ran' = {}
    /\ tickPublished' = <<>>
    /\ tickApplied' = <<>>
    /\ prevCollisions' = collisions
    /\ UNCHANGED <<queue, events_a, events_b, event_count, last_event_count,
                   collisions, pushed, published, applied, afterReset,
                   registryVars, coreVars>>

Next ==
    \/ Push
    \/ write_godot_collision_events
    \/ event_update_system
    \/ update_godot_collisions
    \/ FinishTick

Spec == Init /\ [][Next]_vars

\* the engine callback sends a signal of a pair that collides repeatedly
PushRepeated ==
    /\ Len(pushed) < MaxPushRepeated
    /\ \E s \in RepeatedEvent :
          /\ queue' = Append(queue, s)
          /\ pushed' = Append(pushed, s)
    /\ UNCHANGED <<events_a, events_b, event_count, last_event_count, collisions,
                   ran, published, applied, tickPublished, tickApplied,
                   prevCollisions, afterReset, registryVars, coreVars>>

NextRepeated ==
    \/ PushRepeated
    \/ write_godot_collision_events
    \/ event_update_system
    \/ update_godot_collisions
    \/ FinishTick

\* The collision bridge fed with repeated signals of a few pairs.
SpecRepeated == Init /\ [][NextRepeated]_vars

\* the engine callback sends one of a few signals
PushFair ==
    /\ Len(pushed) < MaxPushFair
    /\ PushRepeated

NextFair ==
    \/ PushFair
    \/ write_godot_collision_events
    \/ event_update_system
    \/ update_godot_collisions
    \/ FinishTick

\* The same systems with the scheduler's guarantee that every tick runs each
\* of its systems and that ticks keep coming; the producer is free to stop,
\* and so is the schedule that swaps the event buffers.
FairSpec ==
    /\ Init
    /\ [][NextFair]_vars
    /\ WF_vars(write_godot_collision_events)
    /\ WF_vars(update_godot_collisions)
    /\ WF_vars(FinishTick)

\* ------------------------------------------------------------------------
\* Vocabulary of the properties
\* ------------------------------------------------------------------------
\* the live entity that carries handle h, None when there is none
Resolve(h) ==
    IF \E e \in DOMAIN HandleOf : HandleOf[e] = h
    THEN CHOOSE e \in DOMAIN HandleOf : HandleOf[e] = h
    ELSE None

\* the event resolves: its target is a live entity and its origin is a live
\* entity that carries a Collisions component
Resolvable(event) ==
    /\ Resolve(event.target) # None
    /\ Resolve(event.origin) \in DOMAIN collisions

\* the events carried by a sequence of event instances
Payload(insts) == [i \in 1 .. Len(insts) |-> insts[i].event]

\* number of occurrences of target that a sequence of signals leaves for the
\* pair (origin, target): Started adds one, Ended removes them all
RECURSIVE NetCount(_, _, _)
NetCount(sigs, origin, target) ==
    IF sigs = <<>> THEN 0
    ELSE LET last == sigs[Len(sigs)]
             rest == SubSeq(sigs, 1, Len(sigs) - 1)
         IN  IF last.origin = origin /\ last.target = target
             THEN IF last.event_type = Started
                  THEN NetCount(rest, origin, target) + 1
                  ELSE 0
             ELSE NetCount(rest, origin, target)

\* the instances of insts that resolve, with origin entity e and kind t
AppliedTo(insts, e, t) ==
    SelectSeq(insts, LAMBDA i : /\ Resolvable(i.event)
                                /\ Resolve(i.event.origin) = e
                                /\ i.event.event_type = t)

\* the target entities of a sequence of instances, in order
Targets(insts) == [i \in 1 .. Len(insts) |-> Resolve(insts[i].event.target)]

\* the current tick is complete: every system has run
TickDone == ran = Systems

\* the apply system has run in the current tick
ApplyDone == "update_godot_collisions" \in ran

\* the drain has run in the current tick
DrainDone == "write_godot_collision_events" \in ran

\* ------------------------------------------------------------------------
\* C1: after each drain-and-apply cycle, for every pair that resolves, the
\* target is in the origin's colliding_entities iff the net effect of all
\* signals drained so far leaves it present.
\* ------------------------------------------------------------------------
C1_NetEffect ==
    TickDone =>
        \A p \in Pairs :
            (Resolve(p[2]) # None /\ Resolve(p[1]) \in DOMAIN collisions) =>
                ((Resolve(p[2]) \in Range(collisions[Resolve(p[1])].colliding_entities))
                    <=> (NetCount(Payload(published), p[1], p[2]) > 0))

\* ------------------------------------------------------------------------
\* C2: after every run of update_godot_collisions, recent_collisions of every
\* entity with a Collisions component holds exactly the targets of the
\* Started events applied to it in that run, in order, and the reset loop
\* left it empty before any event was applied.
\* ------------------------------------------------------------------------
C2_RecentIsThisRun ==
    ApplyDone =>
        \A e \in DOMAIN collisions :
            /\ afterReset[e].recent_collisions = <<>>
            /\ collisions[e].recent_collisions
                   = Targets(AppliedTo(tickApplied, e, Started))

\* a run of the apply that starts from a non-empty recent_collisions of the
\* previous cycle and ends with it empty for that entity, while another
\* entity got a Started in this run
C2_Witness ==
    /\ ApplyDone
    /\ \E e, f \in DOMAIN collisions :
          /\ prevCollisions[e].recent_collisions # <<>>
          /\ collisions[e].recent_collisions = <<>>
          /\ collisions[f].recent_collisions # <<>>

\* ------------------------------------------------------------------------
\* C3: within every tick the drain takes effect before the apply: the events
\* the tick's drain published are applied by the same tick's apply.
\* ------------------------------------------------------------------------
C3_DrainBeforeApply ==
    TickDone => \A i \in 1 .. Len(tickPublished) :
                    tickPublished[i] \in Range(tickApplied)

C4_Inv ==
    /\ Payload(published) \o queue = pushed
    /\ \A i \in 1 .. Len(published) : published[i].event_id = i - 1
    /\ Len(tickPublished) <= Len(published)
    /\ tickPublished = Drop(published, Len(published) - Len(tickPublished))
    /\ (~DrainDone => tickPublished = <<>>)

C4_Step ==
    (~DrainDone /\ DrainDone') =>
        /\ queue' = <<>>
        /\ Payload(tickPublished') = queue
        /\ Payload(published') = pushed

C4_Live ==
    \A n \in 1 .. MaxPushFair : (Len(pushed) >= n) ~> (Len(published) >= n)

\* ------------------------------------------------------------------------
\* C4: no signal is lost or duplicated between the engine callback and the
\* event stream: the events published so far followed by the queue are the
\* signals pushed so far, each published event has its own id, a drain
\* publishes the whole queue and nothing pushed after it, and every pushed
\* signal is eventually published when ticks keep running.
\* ------------------------------------------------------------------------
C4_NoLossNoDup == [](C4_Inv) /\ [][C4_Step]_vars /\ C4_Live

\* a tick whose drain published a signal while a signal pushed after that
\* drain waits in the queue for the next tick
C4_Witness ==
    /\ DrainDone
    /\ tickPublished # <<>>
    /\ queue # <<>>

\* ------------------------------------------------------------------------
\* C5: each published event is applied by update_godot_collisions exactly
\* once: it is never applied twice, and it is never discarded before the
\* apply system has read it.
\* ------------------------------------------------------------------------
C5_ExactlyOnce ==
    /\ \A i, j \in 1 .. Len(applied) :
          i # j => applied[i].event_id # applied[j].event_id
    /\ \A i \in 1 .. Len(published) :
          published[i] \in Range(applied) \cup Range(events_a.events)
                               \cup Range(events_b.events)

\* ------------------------------------------------------------------------
\* C6: in a tick in which no event is applied to entity A, A's
\* colliding_entities is that of the end of the previous tick and A's
\* recent_collisions is empty; a target stays in colliding_entities until an
\* Ended for its pair is applied, and is in recent_collisions only in a tick
\* that applied a Started for its pair.
\* ------------------------------------------------------------------------
C6_QuietTick ==
    ApplyDone =>
        \A e \in DOMAIN collisions :
            /\ (AppliedTo(tickApplied, e, Started) = <<>>
                    /\ AppliedTo(tickApplied, e, Ended) = <<>>)
                => /\ collisions[e].colliding_entities
                          = prevCollisions[e].colliding_entities
                   /\ collisions[e].recent_collisions = <<>>
            /\ \A t \in Range(prevCollisions[e].colliding_entities) :
                  t \notin Range(Targets(AppliedTo(tickApplied, e, Ended)))
                      => t \in Range(collisions[e].colliding_entities)
            /\ \A t \in Range(collisions[e].recent_collisions) :
                  t \in Range(Targets(AppliedTo(tickApplied, e, Started)))

\* the tick after the one that applied a Started: nothing is applied to the
\* entity, its pair is still colliding and no longer recent
C6_Witness ==
    /\ ApplyDone
    /\ \E e \in DOMAIN collisions :
          /\ AppliedTo(tickApplied, e, Started) = <<>>
          /\ AppliedTo(tickApplied, e, Ended) = <<>>
          /\ prevCollisions[e].recent_collisions # <<>>
          /\ collisions[e].colliding_entities # <<>>
          /\ collisions[e].recent_collisions = <<>>

\* ------------------------------------------------------------------------
\* C9: an event whose origin or target does not resolve is dropped: the
\* Collisions components after a run of the apply are those the events that
\* resolve produce alone, in their order, and colliding_entities never holds
\* anything but live entities.
\* ------------------------------------------------------------------------
C9_UnresolvedDropped ==
    /\ \A e \in DOMAIN collisions :
          Range(collisions[e].colliding_entities) \subseteq Range(AllEntities)
    /\ ApplyDone =>
          collisions = ApplyEvents(ResetRecent(prevCollisions),
                           SelectSeq(tickApplied, LAMBDA i : Resolvable(i.event)))

\* a run of the apply that read an event that does not resolve and, after it,
\* a Started that does and was applied
C9_Witness ==
    /\ ApplyDone
    /\ Len(tickApplied) = 2
    /\ ~Resolvable(tickApplied[1].event)
    /\ Resolvable(tickApplied[2].event)
    /\ tickApplied[2].event.event_type = Started
    /\ collisions[Resolve(tickApplied[2].event.origin)].recent_collisions
           = <<Resolve(tickApplied[2].event.target)>>

C10_Inv == ~DrainDone => ENABLED write_godot_collision_events

C10_Step ==
    (~DrainDone /\ DrainDone') =>
        /\ Len(tickPublished') = Len(queue)
        /\ event_count' = event_count + Len(queue)
        /\ (queue = <<>> => published' = published /\ events_b' = events_b)

C10_Live == (~TickDone) ~> TickDone

\* ------------------------------------------------------------------------
\* C10: the drain never blocks: it can run whenever its turn comes, whatever
\* the queue holds; it publishes exactly the signals in the queue, none when
\* the queue is empty; and every tick runs to completion without a push.
\* ------------------------------------------------------------------------
C10_DrainNeverBlocks == [](C10_Inv) /\ [][C10_Step]_vars /\ C10_Live

\* a tick that is complete and whose drain found the queue empty, after an
\* earlier tick published something
C10_Witness ==
    /\ TickDone
    /\ tickPublished = <<>>
    /\ published # <<>>

\* ------------------------------------------------------------------------
\* SceneTreeComponentRegistry
\* ------------------------------------------------------------------------
\* self.components.iter().any(|(id, _)| *id == type_id)
IsRegistered(comps, type_id) ==
    \E i \in 1 .. Len(comps) : comps[i].type_id = type_id

\* register without the already-registered check
RegisterUnchecked(comps, type_id) ==
    Append(comps, [type_id |-> type_id, inserter |-> DefaultInserter])

\* SceneTreeComponentRegistry::register::<C>()
Register(comps, type_id) ==
    IF IsRegistered(comps, type_id) THEN comps
    ELSE Append(comps, [type_id |-> type_id, inserter |-> DefaultInserter])

\* register_with_init replacing the initializer of a registered type
RegisterWithInitOverwrites(comps, type_id, init_fn) ==
    IF IsRegistered(comps, type_id)
    THEN [i \in 1 .. Len(comps) |->
             IF comps[i].type_id = type_id
             THEN [type_id |-> type_id, inserter |-> init_fn]
             ELSE comps[i]]
    ELSE Append(comps, [type_id |-> type_id, inserter |-> init_fn])

\* SceneTreeComponentRegistry::register_with_init::<C, F>(init_fn)
RegisterWithInit(comps, type_id, init_fn) ==
    IF IsRegistered(comps, type_id) THEN comps
    ELSE Append(comps, [type_id |-> type_id, inserter |-> init_fn])

\* one call of an inserter on the entity being built: the default inserter
\* of C inserts C::default(), a custom one inserts the C it builds; the call
\* is recorded in the entity's list of invocations
Invoke(entity, entry) ==
    [invoked |-> Append(entity.invoked, entry),
     inserted |-> [t \in DOMAIN entity.inserted \cup {entry.type_id} |->
                      IF t = entry.type_id THEN entry.inserter
                      ELSE entity.inserted[t]]]

\* add_to_entity walking self.components from the back
RECURSIVE AddToEntityReversed(_, _)
AddToEntityReversed(comps, entity) ==
    IF comps = <<>> THEN entity
    ELSE AddToEntityReversed(SubSeq(comps, 1, Len(comps) - 1),
                             Invoke(entity, comps[Len(comps)]))

\* SceneTreeComponentRegistry::add_to_entity: every inserter, in the order
\* of self.components
RECURSIVE AddToEntity(_, _)
AddToEntity(comps, entity) ==
    IF comps = <<>> THEN entity
    ELSE AddToEntity(Tail(comps), Invoke(entity, Head(comps)))

\* the entity a node is mirrored as, before the registry is applied
SpawnedEntity == [invoked |-> <<>>, inserted |-> <<>>]

\* a call of register::<C>()
register ==
    /\ Len(registrations) < MaxRegistrations
    /\ \E c \in Types :
          /\ components' = Register(components, c)
          /\ registrations' = Append(registrations,
                                  [type_id |-> c, inserter |-> DefaultInserter])
    /\ UNCHANGED <<mirrored, collisionVars, coreVars>>

\* a call of register_with_init::<C, F>(init_fn)
register_with_init ==
    /\ Len(registrations) < MaxRegistrations
    /\ \E c \in Types, f \in InitFns :
          /\ components' = RegisterWithInit(components, c, f)
          /\ registrations' = Append(registrations, [type_id |-> c, inserter |-> f])
    /\ UNCHANGED <<mirrored, collisionVars, coreVars>>

\* add_to_entity taking the inserters out of the registry as it runs them
add_to_entity_draining ==
    /\ Len(mirrored) < MaxNodes
    /\ mirrored' = Append(mirrored,
                       [entity |-> AddToEntity(components, SpawnedEntity),
                        registered |-> Len(registrations)])
    /\ components' = <<>>
    /\ UNCHANGED <<registrations, collisionVars, coreVars>>

\* a node is mirrored: its entity is spawned and add_to_entity is applied
add_to_entity ==
    /\ Len(mirrored) < MaxNodes
    /\ mirrored' = Append(mirrored,
                       [entity |-> AddToEntity(components, SpawnedEntity),
                        registered |-> Len(registrations)])
    /\ UNCHANGED <<components, registrations, collisionVars, coreVars>>

NextRegistry ==
    \/ register
    \/ register_with_init
    \/ add_to_entity

SpecRegistry == Init /\ [][NextRegistry]_vars

\* the component types of a sequence of registry entries or calls, in order
TypeIds(entries) == [i \in 1 .. Len(entries) |-> entries[i].type_id]

\* the calls that are the first of their component type, in call order
FirstCalls(calls) ==
    SelectSeq([i \in 1 .. Len(calls) |-> [call |-> calls[i], index |-> i]],
              LAMBDA c : \A j \in 1 .. (c.index - 1) :
                             calls[j].type_id # c.call.type_id)

\* the component types in the order of their first registration call
FirstRegistered(calls) ==
    [i \in 1 .. Len(FirstCalls(calls)) |-> FirstCalls(calls)[i].call.type_id]

\* number of entries of a sequence with component type t
CountOf(entries, t) == Cardinality({i \in 1 .. Len(entries) : entries[i].type_id = t})

C7_Inv ==
    /\ \A t \in Types :
          CountOf(components, t) = (IF t \in Range(TypeIds(registrations)) THEN 1 ELSE 0)
    /\ \A n \in 1 .. Len(mirrored), t \in Types :
          CountOf(mirrored[n].entity.invoked, t)
              = (IF t \in Range(TypeIds(SubSeq(registrations, 1, mirrored[n].registered)))
                 THEN 1 ELSE 0)

C7_Step ==
    (/\ Len(registrations') = Len(registrations) + 1
     /\ registrations'[Len(registrations')].type_id \in Range(TypeIds(registrations)))
        => components' = components

\* ------------------------------------------------------------------------
\* C7: after any sequence of register and register_with_init calls the
\* registry holds one entry per component type registered and none twice, a
\* call for a type already registered leaves the registry unchanged, and
\* add_to_entity invokes one initializer per registered type.
\* ------------------------------------------------------------------------
C7_OneEntryPerType == [](C7_Inv) /\ [][C7_Step]_vars

\* a type registered twice, with different initializers, and an entity
\* mirrored after the second call
C7_Witness ==
    /\ \E i, j \in 1 .. Len(registrations) :
          /\ i < j
          /\ registrations[i].type_id = registrations[j].type_id
          /\ registrations[i].inserter # registrations[j].inserter
          /\ \E n \in 1 .. Len(mirrored) : mirrored[n].registered >= j

\* ------------------------------------------------------------------------
\* C8: add_to_entity invokes every registered initializer exactly once, in
\* the order in which the component types were first registered, so every
\* type registered before a node is mirrored is attached to its entity.
\* ------------------------------------------------------------------------
C8_InvokedInOrder ==
    \A n \in 1 .. Len(mirrored) :
        LET before == SubSeq(registrations, 1, mirrored[n].registered)
        IN  /\ TypeIds(mirrored[n].entity.invoked) = FirstRegistered(before)
            /\ DOMAIN mirrored[n].entity.inserted = Range(TypeIds(before))

\* an entity mirrored after two different types were registered, one of
\* them twice
C8_Witness ==
    \E n \in 1 .. Len(mirrored) :
        /\ Len(mirrored[n].entity.invoked) >= 2
        /\ mirrored[n].registered > Len(mirrored[n].entity.invoked)

\* ------------------------------------------------------------------------
\* Vocabulary of the properties of single events
\* ------------------------------------------------------------------------
\* the instances of insts that resolve for the pair (origin entity e,
\* target entity t)
OfPair(insts, e, t) ==
    SelectSeq(insts, LAMBDA i : /\ Resolvable(i.event)
                                /\ Resolve(i.event.origin) = e
                                /\ Resolve(i.event.target) = t)

\* the last event the run applied for the pair (e, t) is a Started
LastIsStarted(insts, e, t) ==
    /\ OfPair(insts, e, t) # <<>>
    /\ OfPair(insts, e, t)[Len(OfPair(insts, e, t))].event.event_type = Started

\* the Collisions components before the k-th event of the current run
BeforeEvent(k) == ApplyEvents(afterReset, SubSeq(tickApplied, 1, k - 1))

\* the Collisions components after the k-th event of the current run
AfterEvent(k) == ApplyEvents(afterReset, SubSeq(tickApplied, 1, k))

\* ------------------------------------------------------------------------
\* C12 as stated: after every run of update_godot_collisions every entity
\* in an entity's recent_collisions is also in its colliding_entities.
\* ------------------------------------------------------------------------
C12_RecentSubset ==
    ApplyDone =>
        \A e \in DOMAIN collisions :
            Range(collisions[e].recent_collisions)
                \subseteq Range(collisions[e].colliding_entities)

\* ------------------------------------------------------------------------
\* C12 amended: after every run of update_godot_collisions an entity in
\* recent_collisions is in colliding_entities exactly when the last event
\* the run applied for its pair is a Started; it is missing from
\* colliding_entities only when an Ended for the pair followed the Started
\* in the same run.
\* ------------------------------------------------------------------------
C12_RecentSubsetUnlessEnded ==
    ApplyDone =>
        \A e \in DOMAIN collisions :
            \A t \in Range(collisions[e].recent_collisions) :
                (t \in Range(collisions[e].colliding_entities))
                    <=> LastIsStarted(tickApplied, e, t)

\* a run that applied a Started and then an Ended for the same pair: the
\* target is recent and not colliding
C12_Witness ==
    /\ ApplyDone
    /\ \E e \in DOMAIN collisions :
          \E t \in Range(collisions[e].recent_collisions) :
              /\ t \notin Range(collisions[e].colliding_entities)
              /\ ~LastIsStarted(tickApplied, e, t)

\* ------------------------------------------------------------------------
\* C13: applying an Ended removes the target from the origin's
\* colliding_entities only: recent_collisions is what it was before the
\* event, also for a target whose Started came earlier in the same run.
\* ------------------------------------------------------------------------
C13_EndedKeepsRecent ==
    ApplyDone =>
        /\ collisions = AfterEvent(Len(tickApplied))
        /\ \A k \in 1 .. Len(tickApplied) :
              (tickApplied[k].event.event_type = Ended
                    /\ Resolvable(tickApplied[k].event)) =>
                 LET e == Resolve(tickApplied[k].event.origin)
                     t == Resolve(tickApplied[k].event.target)
                 IN  /\ AfterEvent(k)[e].recent_collisions
                            = BeforeEvent(k)[e].recent_collisions
                     /\ t \notin Range(AfterEvent(k)[e].colliding_entities)
                     /\ Range(AfterEvent(k)[e].colliding_entities)
                            = Range(BeforeEvent(k)[e].colliding_entities) \ {t}

\* a run that applied Started and then Ended for one pair and left the
\* target in recent_collisions
C13_Witness ==
    /\ ApplyDone
    /\ Len(tickApplied) = 2
    /\ tickApplied[1].event.event_type = Started
    /\ tickApplied[2].event.event_type = Ended
    /\ Resolvable(tickApplied[1].event)
    /\ tickApplied[1].event.origin = tickApplied[2].event.origin
    /\ tickApplied[1].event.target = tickApplied[2].event.target
    /\ collisions[Resolve(tickApplied[1].event.origin)].recent_collisions
           = <<Resolve(tickApplied[1].event.target)>>
    /\ collisions[Resolve(tickApplied[1].event.origin)].colliding_entities = <<>>

\* the positions of insts that hold a Started of origin entity e that
\* resolves and that no later Ended of the same pair follows
Surviving(insts, e) ==
    SelectSeq([k \in 1 .. Len(insts) |-> k],
              LAMBDA k : /\ Resolvable(insts[k].event)
                         /\ Resolve(insts[k].event.origin) = e
                         /\ insts[k].event.event_type = Started
                         /\ \A j \in (k + 1) .. Len(insts) :
                               ~(/\ insts[j].event.event_type = Ended
                                 /\ insts[j].event.origin = insts[k].event.origin
                                 /\ insts[j].event.target = insts[k].event.target))

\* the targets of those Started events, in the order they were applied
SurvivingTargets(insts, e) ==
    [i \in 1 .. Len(Surviving(insts, e)) |->
        Resolve(insts[Surviving(insts, e)[i]].event.target)]

\* number of occurrences of x in the sequence s
Occurrences(s, x) == Cardinality({i \in 1 .. Len(s) : s[i] = x})

\* ------------------------------------------------------------------------
\* C14: duplicate Started events accumulate: colliding_entities holds one
\* occurrence of the target per Started applied since the last Ended of the
\* pair, an Ended removes all of them at once, and the other targets keep
\* their occurrences and their order.
\* ------------------------------------------------------------------------
C14_DuplicatesAccumulate ==
    \A e \in DOMAIN collisions :
        /\ collisions[e].colliding_entities = SurvivingTargets(applied, e)
        /\ \A p \in Pairs :
              (Resolve(p[1]) = e /\ Resolve(p[2]) # None) =>
                  Occurrences(collisions[e].colliding_entities, Resolve(p[2]))
                      = NetCount(Payload(applied), p[1], p[2])

\* a run that applied an Ended to a pair that had two occurrences of the
\* target from two Started events and removed both
C14_Witness ==
    /\ ApplyDone
    /\ \E e \in DOMAIN collisions, t \in Range(AllEntities) :
          /\ Occurrences(prevCollisions[e].colliding_entities, t) = 2
          /\ Occurrences(collisions[e].colliding_entities, t) = 0

\* ------------------------------------------------------------------------
\* C15: signals become ordered events: the drain publishes them in push
\* order, the apply reads events in publication order, and when a run
\* applies several events of a pair the last of them decides whether the
\* target is in colliding_entities.
\* ------------------------------------------------------------------------
C15_OrderedEvents ==
    /\ \A i \in 1 .. Len(published) : published[i].event = pushed[i]
    /\ \A i, j \in 1 .. Len(applied) :
          i < j => applied[i].event_id < applied[j].event_id
    /\ ApplyDone =>
          \A e \in DOMAIN collisions, t \in Range(AllEntities) :
              OfPair(tickApplied, e, t) # <<>> =>
                  ((t \in Range(collisions[e].colliding_entities))
                       <=> LastIsStarted(tickApplied, e, t))

\* a run that applied Ended and then Started of one pair, pushed in that
\* order, and left the target colliding
C15_Witness ==
    /\ ApplyDone
    /\ Len(tickApplied) = 2
    /\ Payload(tickApplied) = pushed
    /\ tickApplied[1].event.event_type = Ended
    /\ tickApplied[2].event.event_type = Started
    /\ tickApplied[1].event.origin = tickApplied[2].event.origin
    /\ tickApplied[1].event.target = tickApplied[2].event.target
    /\ Resolvable(tickApplied[2].event)
    /\ Resolve(tickApplied[2].event.target)
           \in Range(collisions[Resolve(tickApplied[2].event.origin)].colliding_entities)

\* ------------------------------------------------------------------------
\* C16: collision state is one-directional: an applied event changes the
\* Collisions component of the entity matched to its origin and of no other
\* entity, the target's included, and an event whose origin entity has no
\* Collisions component changes nothing.
\* ------------------------------------------------------------------------
C16_OneDirectional ==
    ApplyDone =>
        /\ collisions = ApplyEvents(afterReset, tickApplied)
        /\ \A k \in 1 .. Len(tickApplied) :
              /\ \A e \in DOMAIN collisions :
                    e # Resolve(tickApplied[k].event.origin)
                        => AfterEvent(k)[e] = BeforeEvent(k)[e]
              /\ Resolve(tickApplied[k].event.origin) \notin DOMAIN collisions
                    => AfterEvent(k) = BeforeEvent(k)

\* a run that applied a Started whose target carries a Collisions component
\* of its own, which stayed empty, and an event whose origin entity is live
\* and carries none
C16_Witness ==
    /\ ApplyDone
    /\ \E k, j \in 1 .. Len(tickApplied) :
          /\ tickApplied[k].event.event_type = Started
          /\ Resolvable(tickApplied[k].event)
          /\ Resolve(tickApplied[k].event.target) \in DOMAIN collisions
          /\ collisions[Resolve(tickApplied[k].event.target)] = DefaultCollisions
          /\ Resolve(tickApplied[j].event.origin) \in Range(AllEntities)
          /\ Resolve(tickApplied[j].event.origin) \notin DOMAIN collisions

\* the registry entries that a sequence of calls leaves when the first call
\* of every type wins
FirstWins(calls) ==
    [i \in 1 .. Len(FirstCalls(calls)) |-> FirstCalls(calls)[i].call]

\* ------------------------------------------------------------------------
\* C17: first registration wins: the registry holds, for every type, the
\* initializer of the first call that registered it, at the position of
\* that first call, and add_to_entity invokes those initializers.
\* ------------------------------------------------------------------------
C17_FirstRegistrationWins ==
    /\ components = FirstWins(registrations)
    /\ \A n \in 1 .. Len(mirrored) :
          LET before == SubSeq(registrations, 1, mirrored[n].registered)
          IN  /\ mirrored[n].entity.invoked = FirstWins(before)
              /\ \A i \in 1 .. Len(FirstWins(before)) :
                    mirrored[n].entity.inserted[FirstWins(before)[i].type_id]
                        = FirstWins(before)[i].inserter

\* a type registered, then another type, then the first type again with a
\* different initializer, and an entity mirrored after the three calls
C17_Witness ==
    \E i, k, j \in 1 .. Len(registrations) :
        /\ i < k /\ k < j
        /\ registrations[i].type_id = registrations[j].type_id
        /\ registrations[i].type_id # registrations[k].type_id
        /\ registrations[i].inserter # registrations[j].inserter
        /\ \E n \in 1 .. Len(mirrored) :
              /\ mirrored[n].registered >= j
              /\ mirrored[n].entity.inserted[registrations[i].type_id]
                     = registrations[i].inserter

C19_Step ==
    /\ Len(components) <= Len(components')
    /\ SubSeq(components', 1, Len(components)) = components
    /\ (mirrored' # mirrored => components' = components)

\* ------------------------------------------------------------------------
\* C19: the registry is read-only in normal operation: add_to_entity leaves
\* the initializer table unchanged, and every step of the registry keeps the
\* entries it has, in their order, and at most appends to them.
\* ------------------------------------------------------------------------
C19_RegistryOnlyGrows == [][C19_Step]_vars

\* an entity was built from a non-empty registry, and a type registered
\* after that was appended behind the entries the entity got
C19_Witness ==
    \E n \in 1 .. Len(mirrored) :
        /\ mirrored[n].entity.invoked # <<>>
        /\ Len(components) > Len(mirrored[n].entity.invoked)
        /\ SubSeq(components, 1, Len(mirrored[n].entity.invoked))
               = mirrored[n].entity.invoked

\* ------------------------------------------------------------------------
\* The App extension methods and the plugin build
\* ------------------------------------------------------------------------
\* World::contains_resource::<SceneTreeComponentRegistry>()
ContainsResource(resource) == resource # <<>>

\* SceneTreeComponentRegistry::default(): no component registered
DefaultRegistry == <<>>

\* init_resource replacing a resource that is present
InsertDefaultResource(resource) == <<DefaultRegistry>>

\* init_resource::<SceneTreeComponentRegistry>(): inserts the default value
\* when the resource is absent and leaves a present resource alone
InitResource(resource) ==
    IF ContainsResource(resource) THEN resource ELSE <<DefaultRegistry>>

\* "Get or create the registry" of the extension methods
GetOrCreate(resource) ==
    IF ~ContainsResource(resource) THEN InitResource(resource) ELSE resource

\* App::register_scene_tree_component::<C>()
register_scene_tree_component ==
    /\ Len(app_calls) < MaxRegistrations
    /\ \E c \in Types :
          /\ app_registry' = <<Register(GetOrCreate(app_registry)[1], c)>>
          /\ app_calls' = Append(app_calls,
                              [type_id |-> c, inserter |-> DefaultInserter])
    /\ UNCHANGED <<built_at, collisionVars, registryVars, configVars, timerVars>>

\* App::register_scene_tree_component_with_init::<C, F>(init_fn)
register_scene_tree_component_with_init ==
    /\ Len(app_calls) < MaxRegistrations
    /\ \E c \in Types, f \in InitFns :
          /\ app_registry' =
                 <<RegisterWithInit(GetOrCreate(app_registry)[1], c, f)>>
          /\ app_calls' = Append(app_calls, [type_id |-> c, inserter |-> f])
    /\ UNCHANGED <<built_at, collisionVars, registryVars, configVars, timerVars>>

\* GodotBaseCorePlugin::build: a plugin is added to an App once
GodotBaseCorePlugin_build ==
    /\ built_at = <<>>
    /\ app_registry' = InitResource(app_registry)
    /\ built_at' = <<Len(app_calls)>>
    /\ UNCHANGED <<app_calls, collisionVars, registryVars, configVars, timerVars>>

NextApp ==
    \/ register_scene_tree_component
    \/ register_scene_tree_component_with_init
    \/ GodotBaseCorePlugin_build

SpecApp == Init /\ [][NextApp]_vars

\* ------------------------------------------------------------------------
\* C18: registrations survive any ordering of setup steps: the extension
\* methods create the registry when it is absent and reuse it otherwise, and
\* the plugin build initialises it only if absent, so in every interleaving
\* of extension calls with the build the registry holds the first call of
\* every type registered so far, in call order: nothing is lost or reset.
\* ------------------------------------------------------------------------
C18_RegistrationsSurviveSetup ==
    /\ (app_calls # <<>> \/ built_at # <<>>) => ContainsResource(app_registry)
    /\ app_calls = <<>> /\ built_at = <<>> => ~ContainsResource(app_registry)
    /\ ContainsResource(app_registry)
          => app_registry[1] = FirstWins(app_calls)

\* the plugin was built after a registration and before a later one of
\* another type, and the registry holds both
C18_Witness ==
    /\ built_at # <<>>
    /\ ContainsResource(app_registry)
    /\ \E i, j \in 1 .. Len(app_calls) :
          /\ i <= built_at[1] /\ built_at[1] < j
          /\ app_calls[i].type_id # app_calls[j].type_id
          /\ \E a, b \in 1 .. Len(app_registry[1]) :
                /\ a < b
                /\ app_registry[1][a] = app_calls[i]
                /\ app_registry[1][b] = app_calls[j]

\* ------------------------------------------------------------------------
\* Transform sync configuration
\* ------------------------------------------------------------------------
Disabled == "Disabled"
OneWay == "OneWay"
TwoWay == "TwoWay"

\* enum TransformSyncMode
TransformSyncMode == {Disabled, OneWay, TwoWay}

\* impl Default for TransformSyncMode
TransformSyncMode_default == OneWay

\* a default configuration that reads the engine's transforms back
GodotTransformConfig_default_two_way == [sync_mode |-> TwoWay]

\* impl Default for GodotTransformConfig
GodotTransformConfig_default == [sync_mode |-> OneWay]

\* GodotTransformConfig::disabled()
GodotTransformConfig_disabled == [sync_mode |-> Disabled]

\* GodotTransformConfig::one_way()
GodotTransformConfig_one_way == [sync_mode |-> OneWay]

\* GodotTransformConfig::two_way()
GodotTransformConfig_two_way == [sync_mode |-> TwoWay]

\* the ways setup can build the configuration
Constructors == {"default", "disabled", "one_way", "two_way"}

Construct(constructor) ==
    CASE constructor = "default" -> GodotTransformConfig_default
      [] constructor = "disabled" -> GodotTransformConfig_disabled
      [] constructor = "one_way" -> GodotTransformConfig_one_way
      [] constructor = "two_way" -> GodotTransformConfig_two_way

\* setup inserts the configuration resource, once
setup_transform_config ==
    /\ config = <<>>
    /\ \E constructor \in Constructors :
          /\ config' = <<Construct(constructor)>>
          /\ configured_by' = <<constructor>>
    /\ UNCHANGED <<collisionVars, registryVars, appVars, timerVars>>

\* registration calls made and nodes mirrored so far
RegistryOps == Len(registrations) + Len(mirrored)

\* after setup the operations of the core run in any order
NextConfig ==
    \/ setup_transform_config
    \/ config # <<>> /\ Len(pushed) < MaxConfigPush /\ PushRepeated
    \/ config # <<>> /\ write_godot_collision_events
    \/ config # <<>> /\ event_update_system
    \/ config # <<>> /\ update_godot_collisions
    \/ config # <<>> /\ FinishTick
    \/ config # <<>> /\ RegistryOps < MaxConfigRegistryOps /\ register
    \/ config # <<>> /\ RegistryOps < MaxConfigRegistryOps /\ add_to_entity

SpecConfig == Init /\ [][NextConfig]_vars

\* the mode every constructor is documented to yield
C11_Inv ==
    /\ TransformSyncMode_default = OneWay
    /\ GodotTransformConfig_default.sync_mode = OneWay
    /\ GodotTransformConfig_disabled.sync_mode = Disabled
    /\ GodotTransformConfig_one_way.sync_mode = OneWay
    /\ GodotTransformConfig_two_way.sync_mode = TwoWay
    /\ config # <<>> =>
          config[1].sync_mode =
              CASE configured_by[1] = "default" -> OneWay
                [] configured_by[1] = "disabled" -> Disabled
                [] configured_by[1] = "one_way" -> OneWay
                [] configured_by[1] = "two_way" -> TwoWay

\* once set up, the configuration is left alone by every step
C11_Step == config # <<>> => config' = config

\* ------------------------------------------------------------------------
\* C11: the default transform sync mode is OneWay: both defaults yield
\* OneWay, disabled(), one_way() and two_way() yield Disabled, OneWay and
\* TwoWay, and no operation of the core (drain, apply, register,
\* add_to_entity) changes the configured mode after setup.
\* ------------------------------------------------------------------------
C11_ModeFixedAtSetup == []C11_Inv /\ [][C11_Step]_vars

\* a mode other than the default was configured, and afterwards the drain
\* and the apply ran on an event, a type was registered and a node mirrored
C11_Witness ==
    /\ config # <<>>
    /\ config[1].sync_mode = TwoWay
    /\ applied # <<>>
    /\ \E n \in 1 .. Len(mirrored) : mirrored[n].entity.invoked # <<>>

\* ------------------------------------------------------------------------
\* SystemDeltaTimer
\* ------------------------------------------------------------------------
\* Option::unwrap_or
UnwrapOr(option, default) == IF option = <<>> THEN default ELSE option[1]

\* delta() that records the instant of its first invocation only
DeltaKeepsFirst(last, now) ==
    [last_time |-> <<UnwrapOr(last, now)>>,
     duration  |-> now - UnwrapOr(last, now)]

\* SystemDeltaTimer::delta: the value it returns and the value it records
Delta(last, now) ==
    [last_time |-> <<now>>,
     duration  |-> now - UnwrapOr(last, now)]

\* time passes on the monotonic clock behind Instant::now()
advance_clock ==
    /\ clock < MaxTime
    /\ \E d \in 1 .. (MaxTime - clock) : clock' = clock + d
    /\ UNCHANGED <<last_time, deltas, invoked_at, collisionVars, registryVars,
                   appVars, configVars>>

\* one invocation of SystemDeltaTimer::delta
delta ==
    /\ Len(deltas) < MaxDeltas
    /\ last_time' = Delta(last_time, clock).last_time
    /\ deltas' = Append(deltas, Delta(last_time, clock).duration)
    /\ invoked_at' = Append(invoked_at, clock)
    /\ UNCHANGED <<clock, collisionVars, registryVars, appVars, configVars>>

NextTimer ==
    \/ advance_clock
    \/ delta

SpecTimer == Init /\ [][NextTimer]_vars

RECURSIVE Sum(_)
Sum(durations) ==
    IF durations = <<>> THEN 0
    ELSE Head(durations) + Sum(Tail(durations))

\* ------------------------------------------------------------------------
\* C20: SystemDeltaTimer::delta returns the time passed since the last
\* invocation of the same timer: the first invocation returns zero, every
\* later one returns now minus the time recorded by the previous invocation
\* and then records now, so the deltas of a sequence of invocations sum to
\* the time elapsed between the first and the last invocation.
\* ------------------------------------------------------------------------
C20_DeltaSinceLastInvocation ==
    /\ Len(deltas) = Len(invoked_at)
    /\ deltas # <<>> => deltas[1] = 0
    /\ \A i \in 2 .. Len(deltas) :
          deltas[i] = invoked_at[i] - invoked_at[i - 1]
    /\ last_time = IF invoked_at = <<>> THEN <<>>
                   ELSE <<invoked_at[Len(invoked_at)]>>
    /\ deltas # <<>> =>
          Sum(deltas) = invoked_at[Len(invoked_at)] - invoked_at[1]

\* three invocations, the first one after the clock had started, with
\* different non-zero times between them
C20_Witness ==
    /\ Len(deltas) = 3
    /\ invoked_at[1] > 0
    /\ deltas[2] > 0
    /\ deltas[3] > 0
    /\ deltas[2] # deltas[3]

====
